---- MODULE Spec2Model ----
(***************************************************************************)
(* Chip-16 emulator (src/src/main.rs): the interpreter core CHIP16::cycle, *)
(* the execution loop (cpu_loop, a spawned thread) and the display loop    *)
(* (draw_loop, the main thread), which share the machine state and the     *)
(* framebuffer through two mutexes.                                        *)
(***************************************************************************)
EXTENDS Integers, Sequences, FiniteSets, TLC

\* ------------------------------------------------------------------ bounds
\* Longest program (in instructions) of the cartridges of Spec.
MaxProgLen == 2
\* The count of consecutive VBLNK re-fetches saturates here.
MaxWait == 2
\* Immediates of the arithmetic cartridges lie within NearEdge of 0 and of
\* the ends of the signed 16-bit range.
NearEdge == 1
\* The history balance of display ticks over completed VBLNKs is counted up
\* to MaxCredit.
MaxCredit == 2

\* ------------------------------------------------------- program constants
CARRY == 2
ZERO == 4
OVERFLOW == 64
NEGATIVE == 128
CLEAR == {}
STACK_START == 65008
MEMORY == 65535
WIDTH == 320
HEIGHT == 240

\* ------------------------------------------------------------- arithmetic
\* u16 -> i16 reinterpretation (`hhll as i16`).
AsI16(u) == IF u >= 32768 THEN u - 65536 ELSE u

\* Two's-complement wrap of an integer to 16 bits, signed.
WrapI16(n) == ((n + 32768) % 65536) - 32768

\* i16::overflowing_add: the wrapped sum and whether it overflowed.
OverflowingAdd(a, b) == [res |-> WrapI16(a + b), of |-> WrapI16(a + b) # a + b]

\* i16::overflowing_sub: the wrapped difference and whether it overflowed.
OverflowingSub(a, b) == [res |-> WrapI16(a - b), of |-> WrapI16(a - b) # a - b]

\* flags |= f and flags &= !f on the bit set.
SetFlag(flags, f) == flags \cup {f}
ClearFlag(flags, f) == flags \ {f}

\* ------------------------------------------------------------------ colors
\* impl From<u8> for Color.
ColorFrom(val) == IF val = 15 THEN "White" ELSE "Transparent"

\* impl Into<u32> for Color.  A packed u32 is kept as its four bytes:
\* 0xFFFFFFFF is <<255, 255, 255, 255>> and 0x00000000 is <<0, 0, 0, 0>>.
Zero32 == <<0, 0, 0, 0>>
ColorInto(color) == IF color = "White" THEN <<255, 255, 255, 255>> ELSE Zero32

\* ------------------------------------------------------------ framebuffer
\* The Vec<u32> of WIDTH * HEIGHT cells, kept as the function of its nonzero
\* cells: a cell outside the domain holds 0.
NewBuffer == [p \in {} |-> Zero32]

Cell(buf, pos) == IF pos \in DOMAIN buf THEN buf[pos] ELSE Zero32

BufWrite(buf, pos, v) ==
    IF v = Zero32
    THEN [p \in (DOMAIN buf) \ {pos} |-> buf[p]]
    ELSE [p \in (DOMAIN buf) \cup {pos} |-> IF p = pos THEN v ELSE buf[p]]

\* for i in buff.iter_mut() { *i = v }
BufFill(v) ==
    IF v = Zero32 THEN NewBuffer ELSE [p \in 0 .. (WIDTH * HEIGHT - 1) |-> v]

\* ------------------------------------------------------------ instructions
\* The 4 bytes [opcode][y:x][ll][hh] of an instruction.
Instr(opcode, x, y, hhll) == <<opcode, y * 16 + x, hhll % 256, hhll \div 256>>

RECURSIVE Flatten(_)
Flatten(prog) == IF prog = <<>> THEN <<>> ELSE Head(prog) \o Flatten(Tail(prog))

\* memory: [0; MEMORY] with the first size bytes copied from the cartridge,
\* kept as the function of its nonzero bytes: a byte outside the domain is 0.
Load(cart, size) ==
    [a \in {b \in 0 .. (size - 1) : cart[b + 1] # 0} |-> cart[a + 1]]

\* CHIP16::new.
NewChip16(header, cart) ==
    [ memory  |-> Load(cart, header.size),
      pc      |-> header.start,
      sp      |-> STACK_START,
      regs    |-> [r \in 0 .. 15 |-> 0],
      flags   |-> CLEAR,
      bg      |-> "Transparent",
      fg      |-> "Transparent",
      spritew |-> 0,
      spriteh |-> 0,
      vblank  |-> FALSE ]

\* self.memory[a] for a < MEMORY: the loaded byte, or 0.
MemAt(c, a) == IF a \in DOMAIN c.memory THEN c.memory[a] ELSE 0

\* ------------------------------------------------------------------- cycle
\* The locals of one cycle() call: the address fetched from, the decoded
\* fields, and the two registers read before PC is advanced.
Decode(c) ==
    LET instr == [k \in 0 .. 3 |-> MemAt(c, c.pc + k)]
        x == instr[1] % 16
        y == instr[1] \div 16
    IN  [ pc     |-> c.pc,
          opcode |-> instr[0],
          ll     |-> instr[2],
          hh     |-> instr[3],
          hhll   |-> instr[3] * 256 + instr[2],
          x      |-> x,
          y      |-> y,
          z      |-> instr[2] % 16,
          rx     |-> c.regs[x],
          ry     |-> c.regs[y] ]

\* The locals before the first cycle.
NoInstr ==
    [ pc |-> -1, opcode |-> -1, ll |-> 0, hh |-> 0, hhll |-> 0,
      x |-> 0, y |-> 0, z |-> 0, rx |-> 0, ry |-> 0 ]

\* &self.memory[pc .. pc + 4] is in range.
FetchInRange(c) == c.pc + 4 <= MEMORY

\* self.memory[hhll as usize], read for every instruction, is in range.
OperandInRange(d) == d.hhll < MEMORY

\* self.pc += 4
AdvancePc(c) == [c EXCEPT !.pc = c.pc + 4]

\* Mutant of Op01: CLS resets the latch with the colors.
Op01_ClearsLatch(c) ==
    [c EXCEPT !.fg = "Transparent", !.bg = "Transparent", !.vblank = FALSE]

\* Mutant of Op01: CLS keeps the background BGC chose.
Op01_KeepsBackground(c) == [c EXCEPT !.fg = "Transparent"]

\* 0x01 CLS, up to the screen lock.
Op01(c) == [c EXCEPT !.fg = "Transparent", !.bg = "Transparent"]

\* Mutant of Op02: a completed VBLNK leaves the latch set.
Op02_KeepsLatch(c) == IF ~c.vblank THEN [c EXCEPT !.pc = c.pc - 4] ELSE c

\* Mutant of Op02: the wait does not rewind PC.
Op02_NoRewind(c) == [c EXCEPT !.vblank = FALSE]

\* 0x02 VBLNK (pc is already advanced).
Op02(c) ==
    IF ~c.vblank
    THEN [c EXCEPT !.pc = c.pc - 4]
    ELSE [c EXCEPT !.vblank = FALSE]

\* 0x03 BGC
Op03(c, d) == [c EXCEPT !.bg = ColorFrom(d.ll % 16)]

\* 0x04 SPR
Op04(c, d) == [c EXCEPT !.spritew = d.ll, !.spriteh = d.hh]

\* 0x10 JMP
Op10(c, d) == [c EXCEPT !.pc = d.hhll]

\* 0x12 Jcc: the selectors the inner match knows.
JccSelectors == {0, 9}

\* 0x12 Jcc with a known selector.
Op12(c, d) ==
    IF d.x = 0
    THEN (IF ZERO \in c.flags THEN [c EXCEPT !.pc = d.hhll] ELSE c)
    ELSE (IF CARRY \in c.flags THEN [c EXCEPT !.pc = d.hhll] ELSE c)

\* Mutant of Op13: JME jumps when the registers differ.
Op13_Inverted(c, d) == IF d.rx # d.ry THEN [c EXCEPT !.pc = d.hhll] ELSE c

\* 0x13 JME
Op13(c, d) == IF d.rx = d.ry THEN [c EXCEPT !.pc = d.hhll] ELSE c

\* 0x20 LDI
Op20(c, d) == [c EXCEPT !.regs[d.x] = AsI16(d.hhll)]

\* 0x24 MOV
Op24(c, d) == [c EXCEPT !.regs[d.x] = d.ry]

\* if cond { flags |= f } else { flags &= !f }
FlagIf(flags, f, cond) == IF cond THEN SetFlag(flags, f) ELSE ClearFlag(flags, f)

\* Mutant of Op41: Carry follows the overflow of the addition.
Op41_CarryFromOverflow(c, d) ==
    LET r  == OverflowingAdd(d.rx, d.ry)
        f1 == FlagIf(c.flags, CARRY, r.of)
        f2 == FlagIf(f1, OVERFLOW,
                     (d.rx < 0 /\ d.ry < 0 /\ r.res >= 0)
                         \/ (d.rx >= 0 /\ d.ry >= 0 /\ r.res < 0))
        f3 == FlagIf(f2, ZERO, r.res = 0)
        f4 == FlagIf(f3, NEGATIVE, r.res < 0)
    IN  [c EXCEPT !.regs[d.x] = r.res, !.flags = f4]

\* 0x41 ADD: both branches of the carry test set CARRY.
Op41(c, d) ==
    LET r  == OverflowingAdd(d.rx, d.ry)
        f1 == IF r.of THEN SetFlag(c.flags, CARRY) ELSE SetFlag(c.flags, CARRY)
        f2 == FlagIf(f1, OVERFLOW,
                     (d.rx < 0 /\ d.ry < 0 /\ r.res >= 0)
                         \/ (d.rx >= 0 /\ d.ry >= 0 /\ r.res < 0))
        f3 == FlagIf(f2, ZERO, r.res = 0)
        f4 == FlagIf(f3, NEGATIVE, r.res < 0)
    IN  [c EXCEPT !.regs[d.x] = r.res, !.flags = f4]

\* Mutant of Op50: Zero is set on a zero result and never cleared.
Op50_StaleZero(c, d) ==
    LET r  == OverflowingSub(d.rx, AsI16(d.hhll))
        f1 == FlagIf(c.flags, CARRY, d.rx < AsI16(d.hhll))
        f2 == FlagIf(f1, OVERFLOW, r.of)
        f3 == FlagIf(f2, NEGATIVE, r.res < 0)
        f4 == IF r.res = 0 THEN SetFlag(f3, ZERO) ELSE f3
    IN  [c EXCEPT !.regs[d.x] = r.res, !.flags = f4]

\* 0x50 SUB reg, imm
Op50(c, d) ==
    LET r  == OverflowingSub(d.rx, AsI16(d.hhll))
        f1 == FlagIf(c.flags, CARRY, d.rx < AsI16(d.hhll))
        f2 == FlagIf(f1, OVERFLOW, r.of)
        f3 == FlagIf(f2, NEGATIVE, r.res < 0)
        f4 == FlagIf(f3, ZERO, r.res = 0)
    IN  [c EXCEPT !.regs[d.x] = r.res, !.flags = f4]

\* Mutant of Op51: Carry is the unsigned borrow.
Op51_UnsignedBorrow(c, d) ==
    LET r  == OverflowingSub(d.rx, d.ry)
        f1 == FlagIf(c.flags, CARRY, (d.rx + 65536) % 65536 < (d.ry + 65536) % 65536)
        f2 == FlagIf(f1, OVERFLOW, r.of)
        f3 == FlagIf(f2, NEGATIVE, r.res < 0)
        f4 == FlagIf(f3, ZERO, r.res = 0)
    IN  [c EXCEPT !.regs[d.x] = r.res, !.flags = f4]

\* 0x51 SUB reg, reg
Op51(c, d) ==
    LET r  == OverflowingSub(d.rx, d.ry)
        f1 == FlagIf(c.flags, CARRY, d.rx < d.ry)
        f2 == FlagIf(f1, OVERFLOW, r.of)
        f3 == FlagIf(f2, NEGATIVE, r.res < 0)
        f4 == FlagIf(f3, ZERO, r.res = 0)
    IN  [c EXCEPT !.regs[d.x] = r.res, !.flags = f4]

\* Mutant of Op52: the carry test has its operands swapped.
Op52_CarrySwapped(c, d) ==
    LET r  == OverflowingSub(d.rx, d.ry)
        f1 == FlagIf(c.flags, CARRY, d.ry < d.rx)
        f2 == FlagIf(f1, OVERFLOW, r.of)
        f3 == FlagIf(f2, NEGATIVE, r.res < 0)
        f4 == FlagIf(f3, ZERO, r.res = 0)
    IN  [c EXCEPT !.regs[d.z] = r.res, !.flags = f4]

\* 0x52 SUB reg, reg -> dest
Op52(c, d) ==
    LET r  == OverflowingSub(d.rx, d.ry)
        f1 == FlagIf(c.flags, CARRY, d.rx < d.ry)
        f2 == FlagIf(f1, OVERFLOW, r.of)
        f3 == FlagIf(f2, NEGATIVE, r.res < 0)
        f4 == FlagIf(f3, ZERO, r.res = 0)
    IN  [c EXCEPT !.regs[d.z] = r.res, !.flags = f4]

\* Mutant of Fault: an unrecognized instruction is skipped.
Fault_Skips(c, d) == [chip |-> c, ret |-> "Continue"]

\* panic!("Unknown opcode: ...") and panic!("J{:x} {:#X}", ...).
Fault(c, d) == [chip |-> c, ret |-> "Panic"]

\* The match of cycle() on the opcode, applied to the machine with PC already
\* advanced.  ret is "Continue" (the arm ran to the end and cycle returns
\* State::Continue), "Screen" (the arm goes on to take the framebuffer lock)
\* or "Panic".
Dispatch(c, d) ==
    CASE d.opcode = 1  -> [chip |-> Op01(c), ret |-> "Screen"]
      [] d.opcode = 2  -> [chip |-> Op02(c), ret |-> "Continue"]
      [] d.opcode = 3  -> [chip |-> Op03(c, d), ret |-> "Continue"]
      [] d.opcode = 4  -> [chip |-> Op04(c, d), ret |-> "Continue"]
      [] d.opcode = 5  -> [chip |-> c, ret |-> "Screen"]
      [] d.opcode = 16 -> [chip |-> Op10(c, d), ret |-> "Continue"]
      [] d.opcode = 18 /\ d.x \in JccSelectors
                       -> [chip |-> Op12(c, d), ret |-> "Continue"]
      [] d.opcode = 19 -> [chip |-> Op13(c, d), ret |-> "Continue"]
      [] d.opcode = 32 -> [chip |-> Op20(c, d), ret |-> "Continue"]
      [] d.opcode = 36 -> [chip |-> Op24(c, d), ret |-> "Continue"]
      [] d.opcode = 65 -> [chip |-> Op41(c, d), ret |-> "Continue"]
      [] d.opcode = 80 -> [chip |-> Op50(c, d), ret |-> "Continue"]
      [] d.opcode = 81 -> [chip |-> Op51(c, d), ret |-> "Continue"]
      [] d.opcode = 82 -> [chip |-> Op52(c, d), ret |-> "Continue"]
      [] OTHER         -> Fault(c, d)

\* cycle() up to the end of a plain arm or to the framebuffer lock: the fetch
\* (a slice out of range panics), the operand byte at hhll (an index out of
\* range panics), pc += 4, the match.
Cycle(c) ==
    IF ~FetchInRange(c)
    THEN [chip |-> c, ret |-> "Panic"]
    ELSE IF ~OperandInRange(Decode(c))
    THEN [chip |-> c, ret |-> "Panic"]
    ELSE Dispatch(AdvancePc(c), Decode(c))

\* ------------------------------------------------------- the screen arms
\* 0x01 CLS under the framebuffer lock: every cell takes the background.
ClsFill(c) == BufFill(ColorInto(c.bg))

\* u8 and i16 arithmetic of the sprite loop: an overflow panics in a build
\* with overflow checks and wraps in one without.
Overflows8(n) == n > 255
OverflowsI16(n) == WrapI16(n) # n

\* One iteration of the inner loop of DRW (line 206-219) and the ones after
\* it, on s = [xpos, ypos, addr, buf, panic].
RECURSIVE DrwRow(_, _, _, _, _)
DrwRow(c, j, i, s, checked) ==
    IF s.panic \/ i >= c.spritew
    THEN s
    ELSE IF s.addr >= MEMORY
    THEN [s EXCEPT !.panic = TRUE]
    ELSE
      LET color == MemAt(c, s.addr)
          left  == ColorFrom(color \div 16)
          right == ColorFrom(color % 16)
          pos   == s.xpos + s.ypos * WIDTH
          step  == i * j + c.spritew
          xnext == s.xpos + i * 2
      IN  IF pos < 0 \/ pos >= WIDTH * HEIGHT
          THEN [s EXCEPT !.panic = TRUE]
          ELSE IF pos + 1 >= WIDTH * HEIGHT
          THEN [s EXCEPT !.buf = BufWrite(s.buf, pos, ColorInto(left)),
                         !.panic = TRUE]
          ELSE IF checked /\ (Overflows8(i * j) \/ Overflows8(step)
                                 \/ OverflowsI16(xnext))
          THEN [s EXCEPT !.buf = BufWrite(BufWrite(s.buf, pos, ColorInto(left)),
                                          pos + 1, ColorInto(right)),
                         !.panic = TRUE]
          ELSE DrwRow(c, j, i + 1,
                      [s EXCEPT !.buf = BufWrite(BufWrite(s.buf, pos, ColorInto(left)),
                                                 pos + 1, ColorInto(right)),
                                !.addr = s.addr + ((((i * j) % 256) + c.spritew) % 256),
                                !.xpos = WrapI16(xnext)],
                      checked)

\* The outer loop of DRW (line 204-220) from row j on.
RECURSIVE DrwRows(_, _, _, _)
DrwRows(c, j, s, checked) ==
    IF s.panic \/ j >= c.spriteh
    THEN s
    ELSE IF checked /\ OverflowsI16(s.ypos + j)
    THEN [s EXCEPT !.panic = TRUE]
    ELSE DrwRows(c, j + 1,
                 DrwRow(c, j, 0, [s EXCEPT !.ypos = WrapI16(s.ypos + j)], checked),
                 checked)

\* 0x05 DRW under the framebuffer lock.
Drw(c, d, buf, checked) ==
    DrwRows(c, 0,
            [xpos |-> d.rx, ypos |-> d.ry, addr |-> d.hhll, buf |-> buf,
             panic |-> FALSE],
            checked)

\* What the arm of d does to the framebuffer once it holds the lock: the
\* new cells and whether it panics, in either build.
ScreenArm(c, d, buf) ==
    IF d.opcode = 1
    THEN {[buf |-> ClsFill(c), panic |-> FALSE]}
    ELSE {[buf |-> Drw(c, d, buf, chk).buf, panic |-> Drw(c, d, buf, chk).panic] :
             chk \in BOOLEAN}

\* --------------------------------------------------------------- cartridges
\* Instructions of the cartridges of Spec, one or two of each kind.
VBLNK == Instr(2, 0, 0, 0)
CLS == Instr(1, 0, 0, 0)
BGC(n) == Instr(3, 0, 0, n)
SPR(w, h) == Instr(4, 0, 0, h * 256 + w)
DRW(x, y, hhll) == Instr(5, x, y, hhll)
JMP(hhll) == Instr(16, 0, 0, hhll)
Jcc(sel, hhll) == Instr(18, sel, 0, hhll)
JME(x, y, hhll) == Instr(19, x, y, hhll)
LDI(x, hhll) == Instr(32, x, 0, hhll)
MOV(x, y) == Instr(36, x, y, 0)
ADD(x, y) == Instr(65, x, y, 0)
SUBI(x, hhll) == Instr(80, x, 0, hhll)
SUB(x, y) == Instr(81, x, y, 0)
SUBZ(x, y, z) == Instr(82, x, y, z)

\* All sequences over S of length 1 .. n.
SeqsUpTo(S, n) == UNION {[1 .. k -> S] : k \in 1 .. n}

\* The instructions the programs of Spec are made of.  As the second
\* instruction DRW(15, 0, 5) draws the byte at address 5, its own operand byte
\* 0x0F: a transparent left pixel and a white right one.
SysInstrs ==
    { VBLNK, CLS, BGC(15), SPR(1, 1), DRW(15, 0, 5), JMP(0), Jcc(0, 0),
      Jcc(5, 0), LDI(0, 1), SUB(0, 0), Instr(255, 0, 0, 0) }

\* The cartridges of Spec: a header (size, start) and the payload.
SysCarts ==
    { [header |-> [size |-> Len(Flatten(p)), start |-> 0], cart |-> Flatten(p)] :
        p \in SeqsUpTo(SysInstrs, MaxProgLen) }

\* The immediates of the arithmetic cartridges: 5 and 10, and the 16-bit
\* values within NearEdge of 0x0000, of the sign change 0x7FFF/0x8000 and of
\* 0xFFFF.
Imms ==
    {5, 10} \cup (0 .. NearEdge) \cup ((32767 - NearEdge) .. (32768 + NearEdge))
        \cup ((65535 - NearEdge) .. 65535)

\* The instruction run before the one under test: it leaves R0 and R1 alone
\* (MOV) or leaves a result and flags behind.
PreOps == { MOV(2, 0), ADD(1, 0), SUB(0, 1), SUBI(1, 1) }

\* The instructions under test, for the immediate b.
AluOps(b) ==
    { ADD(0, 1), ADD(0, 0), SUBI(0, b), SUBI(0, 65535), SUB(0, 1), SUB(0, 0),
      SUBZ(0, 1, 2), SUBZ(0, 1, 0), SUBZ(0, 1, 1), SUBZ(1, 0, 15), CLS }

\* The cartridges of SpecCpu: LDI R0, a; LDI R1, b; a first instruction; the
\* instruction under test.
AluCart(a, b, p, q) ==
    [header |-> [size |-> 16, start |-> 0],
     cart |-> Flatten(<<LDI(0, a), LDI(1, b), p, q>>)]

AluCarts ==
    UNION { { AluCart(a, b, p, q) : p \in PreOps, q \in AluOps(b) } :
              a \in Imms, b \in Imms }

\* The jump targets of the jump cartridges: the start, an address past the
\* program, and the highest addresses of the 16-bit space.
JmpTargets == {0, 16, 65532, 65534, 65535}

\* The start addresses of the headers: the targets inside the memory.
JmpStarts == {t \in JmpTargets : t < MEMORY}

\* What runs before the jump: nothing, an instruction that sets Zero
\* (SUB R0, R0) or Carry (ADD R0, R0), one that makes R0 differ from R1, a
\* CLS, or the two loads LDI R0, 0x1234; LDI R1, 0x1234.
JmpPrefixes ==
    { <<>>, <<SUB(0, 0)>>, <<ADD(0, 0)>>, <<LDI(0, 1)>>, <<CLS>>,
      <<LDI(0, 4660), LDI(1, 4660)>> }

\* The jumps under test to the target t.
JmpOps(t) == { JMP(t), Jcc(0, t), Jcc(9, t), Jcc(5, t), JME(0, 1, t), JME(0, 0, t) }

\* A cartridge loaded at 0 and started at start.
Cart(prog, start) ==
    [header |-> [size |-> Len(Flatten(prog)), start |-> start], cart |-> Flatten(prog)]

\* A cartridge that fills the memory: JMP 0xFFFB at address 0, LDI R2, 7 in
\* the last four bytes (0xFFFB .. 0xFFFE), zeros between.
LastInstr == MEMORY - 4
FullCart ==
    [header |-> [size |-> MEMORY, start |-> 0],
     cart |-> [a \in 1 .. MEMORY |->
                  IF a <= 4 THEN JMP(LastInstr)[a]
                  ELSE IF a > LastInstr THEN LDI(2, 7)[a - LastInstr]
                  ELSE 0]]

\* The cartridges of SpecJmp: a prefix, a jump and LDI R2, 7 where the jump
\* falls through, started at 0; the one-instruction cartridge started at each
\* of the start addresses; the cartridge that fills the memory.
JmpCarts ==
    UNION { { Cart(p \o <<j, LDI(2, 7)>>, 0) : p \in JmpPrefixes, j \in JmpOps(t) } :
              t \in JmpTargets }
        \cup { Cart(<<LDI(2, 7)>>, t) : t \in JmpStarts }
        \cup { FullCart }

\* The sprite cartridges.  Positions on the grid's corner, at its right and
\* bottom edge, and negative ones (0xFFFE is -2); sprite sizes; where the
\* sprite bytes are read: the white bytes FF FF FF FF the cartridge carries at
\* SpriteData, or zeroed memory past the cartridge.
DrwXs == {0, 319, 65534}
DrwYs == {0, 239, 65534}
DrwSizes == {<<1, 1>>, <<2, 2>>}
SpriteData == 28
BlankData == 1000
DrwSources == {SpriteData, BlankData}

\* What follows the first DRW: a second DRW at the same position, or BGC c
\* and CLS.
DrwTails ==
    { <<DRW(0, 1, a), VBLNK>> : a \in DrwSources }
        \cup { <<BGC(c), CLS>> : c \in {0, 7, 15} }

\* LDI R0, x; LDI R1, y; SPR w, h; DRW R0, R1, a; the tail; a VBLNK on which
\* the execution loop alone waits for ever; the white bytes at SpriteData.
DrwCart(x, y, s, a, t) ==
    Cart(<<LDI(0, x), LDI(1, y), SPR(s[1], s[2]), DRW(0, 1, a)>> \o t
             \o <<VBLNK, <<255, 255, 255, 255>> >>, 0)

DrwCarts ==
    UNION { { DrwCart(x, y, s, a, t) : s \in DrwSizes, a \in DrwSources, t \in DrwTails } :
              x \in DrwXs, y \in DrwYs }

\* The cartridges of the hand-off: programs that wait on VBLNK and come back
\* to it.
VblCarts ==
    { Cart(p, 0) : p \in { <<VBLNK, JMP(0)>>, <<CLS, VBLNK, JMP(0)>>,
                           <<VBLNK, VBLNK, JMP(0)>>, <<LDI(0, 1), VBLNK, JMP(4)>> } }

\* ------------------------------------------------------------------- state
VARIABLES
    chip16,        \* the CHIP16 behind Arc<Mutex<CHIP16>>
    buffer,        \* the framebuffer behind Arc<Mutex<Vec<u32>>>
    chipMutex,     \* [holder, poisoned] of the machine-state mutex
    bufferMutex,   \* [holder, poisoned] of the framebuffer mutex
    cpuPc,         \* where the execution loop's thread is
    drawPc,        \* where the display loop (main thread) is
    cur,           \* the locals of the latest cycle() call
    isOpen,        \* what window.is_open() returned at the latest tick
    keyDown,       \* what window.is_key_down(Escape) returned at the latest tick
    waits,         \* history: consecutive VBLNK re-fetches, up to MaxWait
    credit         \* history: display ticks that set the latch minus VBLNKs
                   \* completed, counted up to MaxCredit

vars ==
    << chip16, buffer, chipMutex, bufferMutex, cpuPc, drawPc, cur, isOpen,
       keyDown, waits, credit >>

Free == [holder |-> "none", poisoned |-> FALSE]

\* main() up to the two loops: the machine built from the cartridge, the
\* zeroed framebuffer, both mutexes free, the execution thread spawned.
InitWith(carts) ==
    /\ \E k \in carts : chip16 = NewChip16(k.header, k.cart)
    /\ buffer = NewBuffer
    /\ chipMutex = Free
    /\ bufferMutex = Free
    /\ cpuPc = "lock"
    /\ drawPc = "check"
    /\ cur = NoInstr
    /\ isOpen = TRUE
    /\ keyDown = FALSE
    /\ waits = 0
    /\ credit = 0

Init == InitWith(SysCarts)

\* The process lives until main returns or panics; the spawned thread dies
\* with it.
Alive == drawPc \notin {"exited", "panicked"}

\* Mutex::lock on a free mutex, and the guard's drop (a drop while the
\* holder panics poisons the mutex).
Acquire(m, who) == [m EXCEPT !.holder = who]
Release(m) == [m EXCEPT !.holder = "none"]
ReleasePanicking(m) == [holder |-> "none", poisoned |-> TRUE]

\* ------------------------------------------------------- the execution loop
\* Mutant of CpuLock: the lock is taken without waiting for its holder.
CpuLock_NoWait ==
    /\ Alive
    /\ cpuPc = "lock"
    /\ chipMutex' = Acquire(chipMutex, "cpu")
    /\ cpuPc' = "cycle"
    /\ UNCHANGED << chip16, buffer, bufferMutex, drawPc, cur, isOpen, keyDown, waits, credit >>

\* cpu_loop's callback: c_a.lock().unwrap(), blocking while the display loop
\* holds the machine state.
CpuLock ==
    /\ Alive
    /\ cpuPc = "lock"
    /\ chipMutex.holder = "none"
    /\ chipMutex' = Acquire(chipMutex, "cpu")
    /\ cpuPc' = "cycle"
    /\ UNCHANGED << chip16, buffer, bufferMutex, drawPc, cur, isOpen, keyDown, waits, credit >>

\* The cycle just run re-fetches its VBLNK: PC is back at the instruction.
Rewinds(c, o) == Decode(c).opcode = 2 /\ o.ret = "Continue" /\ o.chip.pc = c.pc

\* The history count of re-fetches after the cycle with outcome o.
NextWaits(c, o) ==
    LET again == cur.opcode = 2 /\ cur.pc = c.pc
    IN  IF o.ret = "Panic" \/ Decode(c).opcode # 2
        THEN 0
        ELSE IF Rewinds(c, o)
        THEN (IF again /\ waits < MaxWait THEN waits + 1
              ELSE IF again THEN waits ELSE 1)
        ELSE (IF again THEN waits ELSE 0)

\* The cycle just run completes its VBLNK: PC is past the instruction.
Completes(c, o) == Decode(c).opcode = 2 /\ o.ret = "Continue" /\ o.chip.pc = c.pc + 4

\* The history balance after the cycle with outcome o: a completed VBLNK
\* takes one off (no further than -1).
NextCredit(c, o) == IF Completes(c, o) /\ credit >= 0 THEN credit - 1 ELSE credit

\* cycle() under the machine-state lock.  A plain arm returns Continue and the
\* guard is dropped; CLS and DRW go on to the framebuffer lock; a panic ends
\* the thread and poisons the mutex.
CpuCycle ==
    /\ Alive
    /\ cpuPc = "cycle"
    /\ LET o == Cycle(chip16)
       IN  /\ chip16' = o.chip
           /\ cur' = IF FetchInRange(chip16)
                     THEN Decode(chip16)
                     ELSE [NoInstr EXCEPT !.pc = chip16.pc]
           /\ waits' = NextWaits(chip16, o)
           /\ credit' = NextCredit(chip16, o)
           /\ cpuPc' = CASE o.ret = "Continue" -> "sleep"
                         [] o.ret = "Screen"   -> "screen"
                         [] OTHER              -> "dead"
           /\ chipMutex' = CASE o.ret = "Continue" -> Release(chipMutex)
                             [] o.ret = "Screen"   -> chipMutex
                             [] OTHER              -> ReleasePanicking(chipMutex)
    /\ UNCHANGED << buffer, bufferMutex, drawPc, isOpen, keyDown >>

\* screen.lock().unwrap() inside CLS and DRW, still holding the machine state.
CpuScreenLock ==
    /\ Alive
    /\ cpuPc = "screen"
    /\ bufferMutex.holder = "none"
    /\ bufferMutex' = Acquire(bufferMutex, "cpu")
    /\ cpuPc' = "fill"
    /\ UNCHANGED << chip16, buffer, chipMutex, drawPc, cur, isOpen, keyDown, waits, credit >>

\* The framebuffer writes of CLS or DRW, then both guards dropped and Continue
\* returned; an index out of range (or an overflow, in a checked build)
\* panics with both locks held.
CpuFill ==
    /\ Alive
    /\ cpuPc = "fill"
    /\ \E o \in ScreenArm(chip16, cur, buffer) :
          /\ buffer' = o.buf
          /\ cpuPc' = IF o.panic THEN "dead" ELSE "sleep"
          /\ bufferMutex' = IF o.panic THEN ReleasePanicking(bufferMutex)
                            ELSE Release(bufferMutex)
          /\ chipMutex' = IF o.panic THEN ReleasePanicking(chipMutex)
                          ELSE Release(chipMutex)
    /\ UNCHANGED << chip16, drawPc, cur, isOpen, keyDown, waits, credit >>

\* The pacing sleep of cpu_loop ends and the loop calls the callback again.
CpuWake ==
    /\ Alive
    /\ cpuPc = "sleep"
    /\ cpuPc' = "lock"
    /\ UNCHANGED << chip16, buffer, chipMutex, bufferMutex, drawPc, cur, isOpen,
                    keyDown, waits, credit >>

\* --------------------------------------------------------- the display loop
\* Mutant of DrawCheck: the cancel key is not looked at.
DrawCheck_IgnoresKey ==
    /\ drawPc = "check"
    /\ \E open \in BOOLEAN, key \in BOOLEAN :
          /\ isOpen' = open
          /\ keyDown' = key
          /\ drawPc' = IF open THEN "lockBuffer" ELSE "stop"
    /\ UNCHANGED << chip16, buffer, chipMutex, bufferMutex, cpuPc, cur, waits, credit >>

\* The callback's test: window.is_open() && !window.is_key_down(Escape).
DrawCheck ==
    /\ drawPc = "check"
    /\ \E open \in BOOLEAN, key \in BOOLEAN :
          /\ isOpen' = open
          /\ keyDown' = key
          /\ drawPc' = IF open /\ ~key THEN "lockBuffer" ELSE "stop"
    /\ UNCHANGED << chip16, buffer, chipMutex, bufferMutex, cpuPc, cur, waits, credit >>

\* buffer.lock().unwrap(): blocks while held, panics when poisoned.
DrawLockBuffer ==
    /\ drawPc = "lockBuffer"
    /\ bufferMutex.holder = "none"
    /\ IF bufferMutex.poisoned
       THEN drawPc' = "panicked" /\ UNCHANGED bufferMutex
       ELSE drawPc' = "present" /\ bufferMutex' = Acquire(bufferMutex, "draw")
    /\ UNCHANGED << chip16, buffer, chipMutex, cpuPc, cur, isOpen, keyDown, waits, credit >>

\* Mutant of DrawPresent: the framebuffer guard is kept across the statement.
DrawPresent_KeepsGuard ==
    /\ drawPc = "present"
    /\ drawPc' = "lockChip"
    /\ UNCHANGED << chip16, buffer, chipMutex, bufferMutex, cpuPc, cur, isOpen,
                    keyDown, waits, credit >>

\* window.update_with_buffer(&guard) reads the cells; the guard is dropped at
\* the end of the statement.
DrawPresent ==
    /\ drawPc = "present"
    /\ bufferMutex' = Release(bufferMutex)
    /\ drawPc' = "lockChip"
    /\ UNCHANGED << chip16, buffer, chipMutex, cpuPc, cur, isOpen, keyDown, waits, credit >>

\* c_b.lock().unwrap(): blocks while held, panics when poisoned.
DrawLockChip ==
    /\ drawPc = "lockChip"
    /\ chipMutex.holder = "none"
    /\ IF chipMutex.poisoned
       THEN drawPc' = "panicked" /\ UNCHANGED chipMutex
       ELSE drawPc' = "latch" /\ chipMutex' = Acquire(chipMutex, "draw")
    /\ UNCHANGED << chip16, buffer, bufferMutex, cpuPc, cur, isOpen, keyDown, waits, credit >>

\* Mutant of SetLatch: the display tick leaves the latch as it is.
SetLatch_Skipped(c) == c

\* .vblank = true, the guard dropped, State::Continue returned.
SetLatch(c) == [c EXCEPT !.vblank = TRUE]

DrawLatch ==
    /\ drawPc = "latch"
    /\ chip16' = SetLatch(chip16)
    /\ chipMutex' = Release(chipMutex)
    /\ drawPc' = "sleep"
    /\ credit' = IF credit < MaxCredit THEN credit + 1 ELSE credit
    /\ UNCHANGED << buffer, bufferMutex, cpuPc, cur, isOpen, keyDown, waits >>

\* The pacing sleep of draw_loop ends and the loop calls the callback again.
DrawWake ==
    /\ drawPc = "sleep"
    /\ drawPc' = "check"
    /\ UNCHANGED << chip16, buffer, chipMutex, bufferMutex, cpuPc, cur, isOpen,
                    keyDown, waits, credit >>

\* State::Stop => break; draw_loop and main return and the process ends.
DrawStop ==
    /\ drawPc = "stop"
    /\ drawPc' = "exited"
    /\ UNCHANGED << chip16, buffer, chipMutex, bufferMutex, cpuPc, cur, isOpen,
                    keyDown, waits, credit >>

\* ----------------------------------------------------------- specifications
CpuStep == CpuLock \/ CpuCycle \/ CpuScreenLock \/ CpuFill \/ CpuWake

DrawStep ==
    \/ DrawCheck
    \/ DrawLockBuffer
    \/ DrawPresent
    \/ DrawLockChip
    \/ DrawLatch
    \/ DrawWake
    \/ DrawStop

Next == CpuStep \/ DrawStep

\* The whole system: both loops, any interleaving.
Spec == Init /\ [][Next]_vars

\* The interpreter core driven alone (the display loop not scheduled), on the
\* arithmetic cartridges.
InitCpu == InitWith(AluCarts)

SpecCpu == InitCpu /\ [][CpuStep]_vars

\* The interpreter core driven alone on the jump cartridges.
InitJmp == InitWith(JmpCarts)

SpecJmp == InitJmp /\ [][CpuStep]_vars

\* The interpreter core driven alone on the sprite cartridges.
InitDrw == InitWith(DrwCarts)

SpecDrw == InitDrw /\ [][CpuStep]_vars

\* Both loops on the hand-off cartridges, each loop scheduled again and again:
\* the thread of cpu_loop and the main thread in draw_loop run whenever they
\* are not blocked on a lock for good.
InitVbl == InitWith(VblCarts)

SpecVbl == InitVbl /\ [][Next]_vars /\ WF_vars(CpuStep) /\ WF_vars(DrawStep)

\* ===================================================================== claims
\* This step is one cycle() call of the execution loop.
Cycled == cpuPc = "cycle" /\ cpuPc' # "cycle"

\* The opcode byte, the operand byte and the immediate at PC before the step.
OpAt == MemAt(chip16, chip16.pc)
XAt == MemAt(chip16, chip16.pc + 1) % 16
YAt == MemAt(chip16, chip16.pc + 1) \div 16
ZAt == MemAt(chip16, chip16.pc + 2) % 16
ImmAt == MemAt(chip16, chip16.pc + 3) * 256 + MemAt(chip16, chip16.pc + 2)

\* This step is a cycle() call that reaches the match with opcode op: the
\* fetch and the operand byte at hhll are inside the memory.
Ran(op) == Cycled /\ chip16.pc + 4 <= MEMORY /\ ImmAt < MEMORY /\ OpAt = op

\* A sum or difference wrapped to signed 16 bits.
Wrapped(n) == IF n > 32767 THEN n - 65536 ELSE IF n < -32768 THEN n + 65536 ELSE n

\* C1: a cycle that executes VBLNK (0x02) with the latch clear leaves PC where
\* it was (the same VBLNK is fetched again on the next tick) and the latch
\* clear; with the latch set it clears the latch and ends at the old PC + 4.
\* This holds at every such cycle, however many ticks were spent waiting.
C1_Step ==
    Ran(2) =>
        /\ cpuPc' = "sleep"
        /\ ~chip16'.vblank
        /\ IF chip16.vblank
           THEN chip16'.pc = chip16.pc + 4
           ELSE chip16'.pc = chip16.pc /\ MemAt(chip16', chip16'.pc) = 2

\* C1: every cycle that executes VBLNK keeps PC and the clear latch while the
\* latch is clear, and clears the latch and advances PC by 4 once it is set.
C1_VblnkWaitsThenAdvances == [][C1_Step]_vars

\* C1 witness: a VBLNK that was re-fetched MaxWait times in a row has
\* completed: the latch is clear again and PC is past the instruction.
C1_Witness ==
    /\ cur.opcode = 2
    /\ waits = MaxWait
    /\ cpuPc = "sleep"
    /\ chip16.pc = cur.pc + 4
    /\ ~chip16.vblank

\* C2: in every interleaving the latch goes from clear to set only in the
\* display loop's tick (its .vblank = true statement) and from set to clear
\* only in a cycle of the execution loop that executes VBLNK (0x02).
C2_Step ==
    /\ (~chip16.vblank /\ chip16'.vblank) => (drawPc = "latch" /\ drawPc' = "sleep")
    /\ (chip16.vblank /\ ~chip16'.vblank) => (Cycled /\ OpAt = 2)

\* C2: the latch is set only by the display tick and cleared only by a cycle
\* that executes VBLNK, in every step of every interleaving.
C2_LatchTransitions == [][C2_Step]_vars

\* C2 witness: the latch was set by a display tick, cleared by a VBLNK, set
\* again by a later tick, and a cycle of another opcode has run since.
C2_Witness ==
    /\ chip16.vblank
    /\ cur.opcode \in {1, 3, 4, 16, 32, 81}
    /\ cur.pc > 0
    /\ MemAt(chip16, 0) = 2
    /\ cpuPc = "sleep"
    /\ drawPc = "latch"

\* C3: each loop touches the machine state only inside the machine-state lock
\* and the framebuffer only inside the framebuffer lock; the two loops are
\* never inside the same lock together; neither holds a lock while asleep.
C3_Held ==
    /\ cpuPc \in {"cycle", "screen", "fill"} => chipMutex.holder = "cpu"
    /\ cpuPc = "fill" => bufferMutex.holder = "cpu"
    /\ drawPc = "latch" => chipMutex.holder = "draw"
    /\ drawPc = "present" => bufferMutex.holder = "draw"
    /\ ~(cpuPc \in {"cycle", "screen", "fill"} /\ drawPc = "latch")
    /\ ~(cpuPc = "fill" /\ drawPc = "present")
    /\ cpuPc \in {"sleep", "lock", "dead"} =>
           (chipMutex.holder # "cpu" /\ bufferMutex.holder # "cpu")
    /\ drawPc \in {"sleep", "check", "stop", "exited", "panicked"} =>
           (chipMutex.holder # "draw" /\ bufferMutex.holder # "draw")

C3_Access ==
    /\ chip16' # chip16 =>
           \/ chipMutex.holder = "cpu" /\ cpuPc = "cycle" /\ drawPc' = drawPc
           \/ chipMutex.holder = "draw" /\ drawPc = "latch" /\ cpuPc' = cpuPc
    /\ buffer' # buffer =>
           bufferMutex.holder = "cpu" /\ cpuPc = "fill" /\ drawPc' = drawPc

\* C3: the lock discipline holds before and after every step, and every step
\* that changes the machine state or the framebuffer is made by the holder of
\* its lock.
C3_LockDiscipline == [][C3_Held /\ C3_Held' /\ C3_Access]_vars

\* C3 witness: the execution loop is inside both locks (a CLS or DRW about to
\* write the framebuffer) while the display loop waits for the framebuffer.
C3_Witness ==
    /\ cpuPc = "fill"
    /\ chipMutex.holder = "cpu"
    /\ bufferMutex.holder = "cpu"
    /\ drawPc = "lockBuffer"
    /\ chip16.vblank

\* C4: when the window reports closed or Escape is down at a display tick, the
\* callback returns Stop, draw_loop leaves its loop (nothing the execution
\* loop does or holds can block that) and the process ends: no step of either
\* loop follows.
C4_Step ==
    /\ (drawPc = "check" /\ drawPc' # "check" /\ (~isOpen' \/ keyDown'))
           => drawPc' = "stop"
    /\ (drawPc = "stop" /\ drawPc' # "stop") => drawPc' = "exited"

C4_Ends ==
    /\ drawPc = "stop" => ENABLED DrawStop
    /\ drawPc = "exited" => ~ENABLED Next

\* C4: a tick that sees the window closed or Escape down returns Stop, the
\* break is never blocked, and after it no step of either loop is possible.
C4_StopTerminates == []C4_Ends /\ [][C4_Step]_vars

\* C4 witness: the process has ended on the cancel key while the execution
\* loop was inside the machine-state lock, busy-waiting on a VBLNK.
C4_Witness ==
    /\ drawPc = "exited"
    /\ isOpen
    /\ keyDown
    /\ cpuPc = "cycle"
    /\ cur.opcode = 2
    /\ waits >= 1

\* C5 (as claimed): the display loop ends only by returning Stop; while it has
\* not, no state stops it from completing its next tick, whatever the
\* execution loop has done.  The main thread never ends in a panic.
C5_OnlyStopEndsDisplay == drawPc # "panicked"

\* The opcode at PC has no arm, or it is 0x12 with an unknown selector.
C6_Unrecognized ==
    \/ OpAt \notin {1, 2, 3, 4, 5, 16, 18, 19, 32, 36, 65, 80, 81, 82}
    \/ OpAt = 18 /\ XAt \notin {0, 9}

\* C6: a cycle on an instruction whose opcode is none of 0x01 .. 0x52 of the
\* table, or on 0x12 with a selector other than 0x0 and 0x9, is fatal: the
\* execution loop ends in that cycle and never runs another one (its thread is
\* gone and the machine state is never touched again).
C6_Step ==
    /\ (Cycled /\ C6_Unrecognized) => cpuPc' = "dead"
    /\ cpuPc = "dead" =>
           (cpuPc' = "dead" /\ chip16' = chip16 /\ buffer' = buffer /\ cur' = cur)

\* C6: every cycle on an unrecognized instruction ends the execution loop,
\* which never runs another cycle.
C6_UnrecognizedIsFatal == [][C6_Step]_vars

\* C6 witness: the execution loop died on Jcc with selector 5 and the display
\* loop went on to another tick.
C6_Witness ==
    /\ cpuPc = "dead"
    /\ cur.opcode = 18
    /\ cur.x = 5
    /\ chip16.pc = cur.pc + 4
    /\ drawPc = "lockBuffer"

\* A 16-bit immediate read as signed, and a register read as unsigned.
Signed16(u) == IF u > 32767 THEN u - 65536 ELSE u
Unsigned16(v) == IF v < 0 THEN v + 65536 ELSE v

\* The registers x and y before the step.
RxAt == chip16.regs[XAt]
RyAt == chip16.regs[YAt]

\* C7: ADD (0x41) writes regs[x] + regs[y] wrapped to signed 16 bits into
\* regs[x]; Overflow is set iff the operands have the same sign and the result
\* has the other one, and cleared otherwise; Carry is set after every
\* addition; for all operands and for x = y as well.
C7_Step ==
    Ran(65) =>
        /\ chip16'.regs[XAt] = Wrapped(RxAt + RyAt)
        /\ (OVERFLOW \in chip16'.flags) <=>
               (((RxAt < 0) <=> (RyAt < 0))
                    /\ ~((Wrapped(RxAt + RyAt) < 0) <=> (RxAt < 0)))
        /\ CARRY \in chip16'.flags

\* C7: every dispatched ADD leaves the wrapped sum in regs[x], Overflow by the
\* sign rule and Carry set.
C7_Add == [][C7_Step]_vars

\* C7 witness: 0x7FFF + 1 has run with flags clear before it: the result is
\* -32768 and Overflow and Carry are set.
C7_Witness ==
    /\ cpuPc = "sleep"
    /\ cur.opcode = 65
    /\ cur.rx = 32767
    /\ cur.ry = 1
    /\ chip16.regs[cur.x] = -32768
    /\ OVERFLOW \in chip16.flags
    /\ CARRY \in chip16.flags

\* C8 (as claimed): SUB reg, imm (0x50) writes regs[x] - hhll wrapped to
\* signed 16 bits into regs[x] and sets Carry iff regs[x] < hhll as signed
\* 16-bit values, clearing it otherwise, for every register value and every
\* immediate 0x0000 .. 0xFFFF.
C8_Step ==
    (Cycled /\ chip16.pc + 4 <= MEMORY /\ OpAt = 80) =>
        /\ chip16'.regs[XAt] = Wrapped(RxAt - Signed16(ImmAt))
        /\ (CARRY \in chip16'.flags) <=> (RxAt < Signed16(ImmAt))

\* C8 (as claimed): every cycle on SUB reg, imm leaves the wrapped difference
\* in regs[x] and Carry iff regs[x] < imm (signed), for every immediate.
C8_SubImmediate == [][C8_Step]_vars

\* C9 (as claimed): after 0x50, 0x51 and 0x52 Carry is the unsigned borrow:
\* set iff the minuend read as unsigned 16 bits is below the subtrahend read
\* as unsigned 16 bits.
C9_UnsignedStep ==
    /\ Ran(80) => ((CARRY \in chip16'.flags) <=> (Unsigned16(RxAt) < ImmAt))
    /\ (Ran(81) \/ Ran(82)) =>
           ((CARRY \in chip16'.flags) <=> (Unsigned16(RxAt) < Unsigned16(RyAt)))

\* C9 (as claimed): Carry after every subtraction is the unsigned borrow.
C9_CarryIsUnsignedBorrow == [][C9_UnsignedStep]_vars

\* C9 (amended): after every 0x50, 0x51 and 0x52 that cycle() dispatches,
\* Carry is set iff the minuend is below the subtrahend as signed 16-bit
\* values.
C9_SignedStep ==
    /\ Ran(80) => ((CARRY \in chip16'.flags) <=> (RxAt < Signed16(ImmAt)))
    /\ (Ran(81) \/ Ran(82)) => ((CARRY \in chip16'.flags) <=> (RxAt < RyAt))

\* C9 (amended): Carry after every dispatched subtraction is the signed
\* comparison minuend < subtrahend.
C9_CarryIsSignedLess == [][C9_SignedStep]_vars

\* C9 witness: a SUB reg, reg of a negative minuend and a positive subtrahend
\* has run: Carry is set although the unsigned minuend is the larger one.
C9_Witness ==
    /\ cpuPc = "sleep"
    /\ cur.opcode = 81
    /\ cur.rx < 0
    /\ cur.ry > 0
    /\ CARRY \in chip16.flags

\* What 0x51 and 0x52 would leave from the state before the step.
As51 == Op51(AdvancePc(chip16), Decode(chip16))
As52 == Op52(AdvancePc(chip16), Decode(chip16))

\* C10 (as claimed): from the same state 0x51 and 0x52 leave the same flags;
\* 0x51 writes the difference to regs[x], 0x52 writes it to regs[z] and leaves
\* regs[x] and regs[y] unchanged, for all x, y, z.
C10_SourcesKeptStep ==
    /\ Ran(81) =>
           /\ chip16'.flags = As52.flags
           /\ chip16'.regs[XAt] = Wrapped(RxAt - RyAt)
    /\ Ran(82) =>
           /\ chip16'.flags = As51.flags
           /\ chip16'.regs[ZAt] = Wrapped(RxAt - RyAt)
           /\ chip16'.regs[XAt] = RxAt
           /\ chip16'.regs[YAt] = RyAt

\* C10 (as claimed): 0x51 and 0x52 agree on the flags and 0x52 always keeps
\* regs[x] and regs[y].
C10_SourcesAlwaysKept == [][C10_SourcesKeptStep]_vars

\* C10 (amended): from the same state 0x51 and 0x52 leave the same flags; 0x51
\* changes only regs[x] and 0x52 only regs[z], each to the difference, so 0x52
\* keeps regs[x] and regs[y] exactly when z is neither x nor y.
C10_DestinationStep ==
    /\ Ran(81) =>
           /\ chip16'.flags = As52.flags
           /\ chip16'.regs = [chip16.regs EXCEPT ![XAt] = Wrapped(RxAt - RyAt)]
    /\ Ran(82) =>
           /\ chip16'.flags = As51.flags
           /\ chip16'.regs = [chip16.regs EXCEPT ![ZAt] = Wrapped(RxAt - RyAt)]

\* C10 (amended): 0x51 and 0x52 agree on the flags; 0x51 changes only regs[x]
\* and 0x52 only regs[z].
C10_OnlyDestinationDiffers == [][C10_DestinationStep]_vars

\* C10 witness: a 0x52 with z = 2 has written a nonzero difference to R2 and
\* R0 and R1 still hold the operands, with flags left by an earlier
\* instruction replaced.
C10_Witness ==
    /\ cpuPc = "sleep"
    /\ cur.opcode = 82
    /\ cur.z = 2
    /\ cur.rx # cur.ry
    /\ chip16.regs[2] = Wrapped(cur.rx - cur.ry)
    /\ chip16.regs[0] = cur.rx
    /\ chip16.regs[1] = cur.ry
    /\ NEGATIVE \in chip16.flags

\* The signed 16-bit result an arithmetic instruction at PC is to produce
\* from the registers before the step.
ResultAt ==
    CASE OpAt = 65 -> Wrapped(RxAt + RyAt)
      [] OpAt = 80 -> Wrapped(RxAt - Signed16(ImmAt))
      [] OTHER     -> Wrapped(RxAt - RyAt)

\* C11: after ADD (0x41), SUB reg, imm (0x50), SUB reg, reg (0x51) and
\* SUB reg, reg -> dest (0x52) Zero is set iff the signed 16-bit result is 0
\* and Negative iff it is below 0, whatever the two flags were before, and the
\* destination register holds that result.
C11_Step ==
    (Ran(65) \/ Ran(80) \/ Ran(81) \/ Ran(82)) =>
        /\ chip16'.regs[IF OpAt = 82 THEN ZAt ELSE XAt] = ResultAt
        /\ (ZERO \in chip16'.flags) <=> (ResultAt = 0)
        /\ (NEGATIVE \in chip16'.flags) <=> (ResultAt < 0)

\* C11: every dispatched arithmetic instruction recomputes Zero and Negative
\* from its result; no stale bit survives.
C11_ZeroNegativeFromResult == [][C11_Step]_vars

\* C11 witness: SUB R1, 1 left -1 in R1 and Negative set; the SUB R0, R0
\* after it gave 0: Zero is set and the stale Negative is gone.
C11_Witness ==
    /\ cpuPc = "sleep"
    /\ cur.opcode = 81
    /\ cur.pc = 12
    /\ cur.x = 0
    /\ cur.y = 0
    /\ MemAt(chip16, 8) = 80
    /\ chip16.regs[1] = -1
    /\ chip16.regs[0] = 0
    /\ ZERO \in chip16.flags
    /\ NEGATIVE \notin chip16.flags

\* The condition of the jump at PC, on the flags and registers before the step.
JumpTaken ==
    CASE OpAt = 16 -> TRUE
      [] OpAt = 18 -> (XAt = 0 /\ ZERO \in chip16.flags)
                          \/ (XAt = 9 /\ CARRY \in chip16.flags)
      [] OTHER     -> RxAt = RyAt

\* C12: a dispatched JMP (0x10), Jcc (0x12) with selector 0x0 (Zero) or 0x9
\* (Carry), or JME (0x13) leaves PC at the literal target hhll when its
\* condition holds and at the old PC + 4 otherwise, and changes nothing else
\* of the machine; every cycle fetches from the PC the one before it left.
C12_Step ==
    /\ (Ran(16) \/ (Ran(18) /\ XAt \in {0, 9}) \/ Ran(19)) =>
           /\ cpuPc' = "sleep"
           /\ chip16' = [chip16 EXCEPT
                            !.pc = IF JumpTaken THEN ImmAt ELSE chip16.pc + 4]
    /\ (Cycled /\ chip16.pc + 4 <= MEMORY) =>
           /\ cur'.pc = chip16.pc
           /\ cur'.opcode = OpAt

\* The program of the claim: LDI R0, 0x1234; LDI R1, 0x1234; JME R0, R1, 0x0010
\* and the instruction the jump cartridges put after it.
JmeProgram ==
    Load(Flatten(<<LDI(0, 4660), LDI(1, 4660), JME(0, 1, 16), LDI(2, 7)>>), 16)

\* C12: the program of the claim, started at 0, has PC = 0x0010 once its
\* third cycle has run.
C12_Program ==
    (chip16.memory = JmeProgram /\ cur.pc = 8 /\ cpuPc = "sleep") =>
        /\ chip16.pc = 16
        /\ chip16.regs[0] = 4660
        /\ chip16.regs[1] = 4660

\* C12: jumps go to hhll when their condition holds and to PC + 4 otherwise,
\* and LDI R0, 0x1234; LDI R1, 0x1234; JME R0, R1, 0x0010 ends at PC = 0x0010.
C12_Jumps == []C12_Program /\ [][C12_Step]_vars

\* C12 witness: the third cycle of the program of the claim has run and the
\* fourth is about to fetch from 0x0010.
C12_Witness ==
    /\ chip16.memory = JmeProgram
    /\ cur.pc = 8
    /\ cur.opcode = 19
    /\ cpuPc = "cycle"
    /\ chip16.pc = 16

\* This step is the framebuffer part of the arm of opcode op: the writes under
\* the framebuffer lock, up to the return or the panic.
Filled(op) == cpuPc = "fill" /\ cpuPc' # "fill" /\ cur.opcode = op

\* The instruction before the one of the latest cycle is BGC, and its color.
BgcBefore == cur.pc >= 4 /\ MemAt(chip16, cur.pc - 4) = 3
BgcColor == ColorFrom(MemAt(chip16, cur.pc - 2) % 16)

\* Every one of the WIDTH * HEIGHT cells of the framebuffer after the step
\* holds v.
AllCells(v) == \A p \in 0 .. (WIDTH * HEIGHT - 1) : Cell(buffer', p) = v

\* C13 (as claimed): after BGC c; CLS every framebuffer cell holds the packed
\* value of the background color BGC put in force.
C13_BgcStep == (Filled(1) /\ BgcBefore) => AllCells(ColorInto(BgcColor))

\* C13 (as claimed): CLS fills the framebuffer with the background color
\* chosen by the BGC executed just before it.
C13_FillsWithBgcColor == [][C13_BgcStep]_vars

\* C13 (amended): CLS first sets foreground and background to Transparent and
\* then fills every cell with the packed value of that background, 0, whatever
\* color a BGC just before had chosen and whatever the cells held.
C13_ResetStep ==
    /\ Ran(1) =>
           /\ cpuPc' = "screen"
           /\ chip16' = [chip16 EXCEPT !.pc = chip16.pc + 4,
                                       !.fg = "Transparent",
                                       !.bg = "Transparent"]
    /\ Filled(1) =>
           /\ cpuPc' = "sleep"
           /\ chip16.bg = "Transparent"
           /\ AllCells(ColorInto(chip16.bg))
           /\ AllCells(Zero32)

\* C13 (amended): every CLS leaves the background Transparent and every
\* framebuffer cell 0.
C13_FillsWithTransparent == [][C13_ResetStep]_vars

\* C13 witness: a white sprite was drawn at (0, 0), then BGC 15 and CLS ran:
\* the background is Transparent again and no cell is white.
C13_Witness ==
    /\ cpuPc = "sleep"
    /\ cur.opcode = 1
    /\ BgcBefore
    /\ BgcColor = "White"
    /\ MemAt(chip16, 12) = 5
    /\ MemAt(chip16, 14) = SpriteData
    /\ chip16.regs[0] = 0
    /\ chip16.regs[1] = 0
    /\ chip16.bg = "Transparent"
    /\ buffer = NewBuffer

\* The sprite of the DRW of the latest cycle is read from zeroed memory: every
\* byte at or after its address is 0, every pixel has palette index 0.
BlankSprite == \A a \in DOMAIN chip16.memory : a < cur.hhll

\* C14 (as claimed): a DRW whose sprite bytes are all zero writes no
\* framebuffer cell: the framebuffer after it is the one before it, also when
\* an earlier DRW left white cells under the sprite.
C14_Step == (Filled(5) /\ BlankSprite) => buffer' = buffer

\* C14 (as claimed): DRW never writes a cell for a pixel of palette index 0.
C14_TransparentNotWritten == [][C14_Step]_vars

\* C15 (as claimed): DRW never indexes the framebuffer outside its
\* WIDTH * HEIGHT cells: for every position in regs[x], regs[y] (negative, at
\* the right or the bottom edge) and every sprite size the cycle completes
\* without a fault and no cell outside the grid is written.
C15_Step ==
    Filled(5) =>
        /\ cpuPc' = "sleep"
        /\ ~chipMutex'.poisoned
        /\ ~bufferMutex'.poisoned
        /\ DOMAIN buffer' \subseteq 0 .. (WIDTH * HEIGHT - 1)

\* C15 (as claimed): every DRW completes, out-of-grid pixels dropped.
C15_DrwStaysInGrid == [][C15_Step]_vars

\* C16 (as claimed): in every reachable state PC and SP are valid indices of
\* the memory array, 0 <= PC < 65,535 and 0 <= SP < 65,535, also after a jump
\* to any 16-bit target and after PC advanced by 4 from the highest
\* addresses; SP keeps its initial value 0xFDF0.
C16_PcSpInMemory ==
    /\ 0 <= chip16.pc
    /\ chip16.pc < MEMORY
    /\ 0 <= chip16.sp
    /\ chip16.sp < MEMORY
    /\ chip16.sp = STACK_START

\* The part of C16 about SP alone, which the code keeps.
SpKept == chip16.sp = STACK_START /\ chip16.sp < MEMORY

\* The execution loop is parked on a VBLNK: the instruction at PC is VBLNK and
\* the thread is alive.
Parked == OpAt = 2 /\ cpuPc # "dead"

\* The VBLNK of the latest cycle has completed: PC is past it.
Released == cur.opcode = 2 /\ chip16.pc = cur.pc + 4

\* A display tick found the window closed or Escape down.
WindowGone == drawPc \in {"stop", "exited"}

C18_Step ==
    /\ Cycled => chip16.pc + 4 <= MEMORY
    /\ (Cycled /\ chip16.pc + 4 <= MEMORY /\ OpAt = 32) =>
           /\ cpuPc' = "sleep"
           /\ ~chipMutex'.poisoned
           /\ chip16'.regs[XAt] = Signed16(ImmAt)
           /\ chip16'.pc = chip16.pc + 4

\* C18 (as claimed): every LDI whose fetch is in range completes and loads its
\* immediate, 0xFFFF (-1) included.
C18_OperandReadInRange == [][C18_Step]_vars

\* The execution loop waits in a lock() for a mutex the display loop holds,
\* and the display loop for one the execution loop holds.
CpuBlocked ==
    \/ cpuPc = "lock" /\ chipMutex.holder = "draw"
    \/ cpuPc = "screen" /\ bufferMutex.holder = "draw"
DrawBlocked ==
    \/ drawPc = "lockBuffer" /\ bufferMutex.holder = "cpu"
    \/ drawPc = "lockChip" /\ chipMutex.holder = "cpu"

\* C19: the execution loop holds or waits for the framebuffer lock only while
\* it holds the machine-state lock; the display loop holds no framebuffer
\* lock when it waits for or holds the machine-state lock, and never holds
\* both; so in no reachable state does each loop hold one lock and wait for
\* the other: the two loops are never both blocked.
C19_NoLockCycle ==
    /\ bufferMutex.holder = "cpu" => chipMutex.holder = "cpu"
    /\ cpuPc \in {"screen", "fill"} => chipMutex.holder = "cpu"
    /\ drawPc \in {"lockChip", "latch"} => bufferMutex.holder # "draw"
    /\ ~(bufferMutex.holder = "draw" /\ chipMutex.holder = "draw")
    /\ (bufferMutex.holder = "draw") <=> (drawPc = "present")
    /\ ~(CpuBlocked /\ DrawBlocked)

\* C19 witness: the execution loop, inside CLS or DRW with the machine state
\* locked, waits for the framebuffer while the display loop presents it; the
\* display loop is not blocked and goes on.
C19_Witness ==
    /\ cpuPc = "screen"
    /\ chipMutex.holder = "cpu"
    /\ bufferMutex.holder = "draw"
    /\ drawPc = "present"
    /\ CpuBlocked
    /\ ~DrawBlocked

\* This step is a cycle() call that completes a VBLNK: PC ends past it.
VblnkCompleted == Ran(2) /\ chip16'.pc = chip16.pc + 4

\* C20: a VBLNK completes only on a set latch, which it clears, and at that
\* moment at least one display tick has not been used up by an earlier
\* completion; a VBLNK that finds the latch clear waits, however many display
\* ticks came before the last completion; the latch is raised by the display
\* tick alone.
C20_Step ==
    /\ VblnkCompleted =>
           /\ chip16.vblank
           /\ ~chip16'.vblank
           /\ credit >= 1
    /\ (Ran(2) /\ ~chip16.vblank) =>
           /\ chip16'.pc = chip16.pc
           /\ ~chip16'.vblank
           /\ credit' = credit
    /\ (~chip16.vblank /\ chip16'.vblank) => drawPc = "latch" /\ drawPc' = "sleep"

\* The completed VBLNKs never outnumber the display ticks that set the latch,
\* and a set latch stands for a tick not yet used up.
C20_Balance == credit >= 0 /\ (chip16.vblank => credit >= 1)

\* C20: the latch is one bit: completions of VBLNK never exceed the display
\* ticks that set the latch, there is a display tick between any two
\* completions, and several ticks in a row release one VBLNK only.
C20_LatchIsOneBit == []C20_Balance /\ [][C20_Step]_vars

\* C20 witness: after at least two display ticks one VBLNK completed and the
\* next one waits on a clear latch although a tick is left over.
C20_Witness ==
    /\ cpuPc = "sleep"
    /\ cur.opcode = 2
    /\ chip16.pc = cur.pc
    /\ waits >= 1
    /\ ~chip16.vblank
    /\ credit >= 1
====
